---- MODULE Spec2Model ----
(***************************************************************************)
(* A model of features/spectral.py: the spectral feature catalogue of the  *)
(* CREAM feature study.  The library is stateless: every operation is a    *)
(* pure function of its arguments.  The state machine is therefore a       *)
(* caller that invokes one operation after the other; the state records    *)
(* the operation in progress (op), its arguments (arg) and what the call   *)
(* produced (out): a value, or the exception it raised.  Between two calls *)
(* the caller is idle.                                                     *)
(*                                                                         *)
(* Numbers.  Amplitudes and frequencies are exact rationals <<num, den>>   *)
(* in lowest terms with den > 0, so that equality of two values is         *)
(* equality of the pairs.  Python indices are 0-based and are kept         *)
(* 0-based in every result; position i+1 of a TLA+ sequence holds          *)
(* element i of the Python array.                                          *)
(*                                                                         *)
(* Arrays.  A matrix is a non-empty sequence of rows of equal length.      *)
(* The values of the FFT itself are not computed: bin k of the transform   *)
(* of the first n samples of a row is the symbolic cell                    *)
(* [bin |-> k, n |-> n].  Matrices handed to the feature formulas hold     *)
(* concrete amplitudes.  A spectrum handed to a feature formula has the    *)
(* shape the data model gives a spectrum: window/2 + 1 columns for an even *)
(* window >= 2.                                                            *)
(***************************************************************************)
EXTENDS Integers, Sequences, FiniteSets, TLC

VARIABLES op, arg, out

vars == <<op, arg, out>>

-----------------------------------------------------------------------------
(* Program constants *)

POWER_FREQUENCY == 50

SAMPLING_RATE == 6400

DEFAULT_N == 20

DEFAULT_FILTER_FREQUENCY == 1000

-----------------------------------------------------------------------------
(* Bounds of the model *)

\* rows of a spectrum or current batch
MaxRows == 3

\* columns of a current batch, and the largest window a caller passes
MaxCurrentCols == 8

\* harmonic count n passed to harmonics / _get_harmonics_indices
MaxHarmonics == 3

\* length of a frequency vector handed directly to _get_harmonics_indices
MaxFreqLen == 3

\* rows of a spectrum handed to the high-pass filter and the features on it
MaxFilterRows == 2

-----------------------------------------------------------------------------
(* Exact arithmetic *)

Abs(x) == IF x < 0 THEN -x ELSE x

Min(a, b) == IF a < b THEN a ELSE b

RECURSIVE GCD(_, _)
GCD(a, b) == IF b = 0 THEN a ELSE GCD(b, a % b)

\* the rational n/d (d > 0) in lowest terms
Frac(n, d) == LET g == GCD(Abs(n), d) IN <<n \div g, d \div g>>

FracLess(x, y) == x[1] * y[2] < y[1] * x[2]

FracMul(x, y) == Frac(x[1] * y[1], x[2] * y[2])

FracSub(x, y) == Frac(x[1] * y[2] - y[1] * x[2], x[2] * y[2])

FracAbs(x) == <<Abs(x[1]), x[2]>>

FracDiv(x, y) == IF y[1] < 0 THEN Frac(-(x[1] * y[2]), x[2] * (-y[1]))
                 ELSE Frac(x[1] * y[2], x[2] * y[1])

Whole(n) == <<n, 1>>

RECURSIVE SumSeq(_)
SumSeq(s) == IF s = <<>> THEN 0 ELSE Head(s) + SumSeq(Tail(s))

\* numpy.argmin / numpy.argmax along a row: the first extremal index, 0-based
ArgMinLast(s) ==
    (CHOOSE j \in 1..Len(s) :
        /\ \A k \in 1..Len(s) : ~FracLess(s[k], s[j])
        /\ \A k \in (j+1)..Len(s) : FracLess(s[j], s[k])) - 1

ArgMin(s) ==
    (CHOOSE j \in 1..Len(s) :
        /\ \A k \in 1..Len(s) : ~FracLess(s[k], s[j])
        /\ \A k \in 1..(j-1) : FracLess(s[j], s[k])) - 1

ArgMax(s) ==
    (CHOOSE j \in 1..Len(s) :
        /\ \A k \in 1..Len(s) : ~FracLess(s[j], s[k])
        /\ \A k \in 1..(j-1) : FracLess(s[k], s[j])) - 1

\* over the least common denominator
FracAdd(x, y) ==
    LET g == GCD(x[2], y[2])
    IN  Frac(x[1] * (y[2] \div g) + y[1] * (x[2] \div g), (x[2] \div g) * y[2])

RECURSIVE SumFracs(_)
SumFracs(s) == IF s = <<>> THEN <<0, 1>> ELSE FracAdd(Head(s), SumFracs(Tail(s)))

\* a[:, idxs] for in-range 0-based idxs
Gather(a, idxs) == [r \in 1..Len(a) |-> [i \in 1..Len(idxs) |-> a[r][idxs[i] + 1]]]

Ok(v) == [kind |-> "ok", val |-> v]

Raise(k, text, value) == [kind |-> k, text |-> text, value |-> value]

-----------------------------------------------------------------------------
(* Windows and the spectrum *)

RECURSIVE FloorLog2(_)
FloorLog2(n) == IF n <= 1 THEN 0 ELSE 1 + FloorLog2(n \div 2)

\* int(2**np.floor(np.log2(current.shape[1])))
_get_default_window(current) == 2 ^ FloorLog2(Len(current[1]))

\* (spectrum_amp.shape[1] - 1) * 2
_get_window_from_spectrum_off(spectrum_amp) == Len(spectrum_amp[1]) * 2

_get_window_from_spectrum(spectrum_amp) == (Len(spectrum_amp[1]) - 1) * 2

\* features.helpers.normalize: keeps the row and column count
normalize(a) == a

\* current[:, :window] for window >= 1: a slice never fails, it stops at the
\* last column
SliceCols(current, window) ==
    [r \in 1..Len(current) |-> SubSeq(current[r], 1, Min(window, Len(current[r])))]

\* np.abs(fft.rfft(a, axis=1)): n // 2 + 1 bins of the n-point transform
AbsRfft(a) ==
    [r \in 1..Len(a) |->
        [k \in 1..(Len(a[r]) \div 2 + 1) |-> [bin |-> k - 1, n |-> Len(a[r])]]]

\* window is [tag |-> "None"] or [tag |-> "int", v |-> w]
ResolveWindow(current, window) ==
    IF window.tag = "None" THEN _get_default_window(current) ELSE window.v

spectrum(current, window) ==
    LET w == ResolveWindow(current, window)
        normalized_current == normalize(SliceCols(current, w))
    IN  Ok(AbsRfft(normalized_current))

-----------------------------------------------------------------------------
(* Frequencies and harmonic bins *)

\* fft.rfftfreq(window) * sampling_rate; 1.0 / (window * d) divides by zero
\* for window = 0
rfftfreq_scaled(window, sampling_rate) ==
    IF window = 0 THEN Raise("ZeroDivisionError", "float division by zero", window)
    ELSE Ok([k \in 1..(window \div 2 + 1) |-> Frac((k - 1) * sampling_rate, window)])

\* np.where(spectral_frequencies < 0, 0, spectral_frequencies)
ClampNegative(f) == IF f[1] < 0 THEN Whole(0) ELSE f

\* np.argmin(np.abs(np.dstack([freqs]*n) - harmonics), axis=1) for n >= 1 and
\* a non-empty frequency vector
_get_harmonics_indices(spectral_freqs, n, power_frequency) ==
    LET harmonics_hz == [i \in 1..n |-> Whole(i * power_frequency)]
        freqs == [j \in 1..Len(spectral_freqs) |-> ClampNegative(spectral_freqs[j])]
        dist(i) == [j \in 1..Len(freqs) |-> FracAbs(FracSub(freqs[j], harmonics_hz[i]))]
    IN  [i \in 1..n |-> ArgMin(dist(i))]

spectral_frequencies(window, n, limit_to_harmonics, power_frequency, sampling_rate) ==
    LET freqs == rfftfreq_scaled(window, sampling_rate)
    IN  IF freqs.kind # "ok" THEN freqs
        ELSE IF limit_to_harmonics
             THEN LET idxs == _get_harmonics_indices(freqs.val, n, power_frequency)
                  IN  Ok([i \in 1..n |-> freqs.val[idxs[i] + 1]])
             ELSE freqs

\* spectrum(current, window)[:, idxs]: an index past the last column raises
harmonics(current, n, window, power_frequency, sampling_rate) ==
    LET w == ResolveWindow(current, window)
        freqs == spectral_frequencies(w, DEFAULT_N, FALSE, power_frequency, sampling_rate)
        idxs == _get_harmonics_indices(freqs.val, n, power_frequency)
        sp == spectrum(current, [tag |-> "int", v |-> w])
    IN  IF \E i \in 1..n : idxs[i] >= Len(sp.val[1])
        THEN Raise("IndexError", "index is out of bounds for axis 1", idxs)
        ELSE Ok(Gather(sp.val, idxs))

-----------------------------------------------------------------------------
(* Mains amplitude *)

\* the k smallest-first ordering np.unique gives the distinct values
RECURSIVE SortFracs(_)
SortFracs(S) ==
    IF S = {} THEN <<>>
    ELSE LET m == CHOOSE x \in S : \A y \in S : ~FracLess(y, x)
         IN  <<m>> \o SortFracs(S \ {m})

\* np.argmax(counts): the first largest count, 0-based
ArgMaxInt(s) ==
    (CHOOSE j \in 1..Len(s) :
        /\ \A k \in 1..Len(s) : s[k] <= s[j]
        /\ \A k \in 1..(j-1) : s[k] < s[j]) - 1

_peak_amplitude_frequency_first_row(spectrum_amp, freqs) ==
    freqs[ArgMax(spectrum_amp[1]) + 1]

_peak_amplitude_frequency(spectrum_amp, freqs) ==
    LET indices == [r \in 1..Len(spectrum_amp) |-> ArgMax(spectrum_amp[r])]
        peaks == [r \in 1..Len(spectrum_amp) |-> freqs[indices[r] + 1]]
        values == SortFracs({peaks[r] : r \in 1..Len(peaks)})
        counts == [i \in 1..Len(values) |->
                      Cardinality({r \in 1..Len(peaks) : peaks[r] = values[i]})]
    IN  values[ArgMaxInt(counts) + 1]

\* the parameter default mains_frequency=POWER_FREQUENCY, bound when the
\* caller passes no mains frequency
BindMainsFrequency(mains_frequency) ==
    IF mains_frequency.tag = "omitted" THEN [tag |-> "hz", hz |-> POWER_FREQUENCY]
    ELSE mains_frequency

\* if mains_frequency is None: mains_frequency = _peak_amplitude_frequency(...)
ResolveMainsFrequency(spectrum_amp, freqs, mains_frequency) ==
    IF mains_frequency.tag = "None" THEN _peak_amplitude_frequency(spectrum_amp, freqs)
    ELSE Whole(mains_frequency.hz)

\* np.where(freqs == mains_frequency)[0][0] over the nearest bin instead
WhereEqualNearest(freqs, f) ==
    {ArgMin([j \in 1..Len(freqs) |-> FracAbs(FracSub(freqs[j], f))]) + 1}

\* np.where(freqs == mains_frequency)[0]: the 1-based positions that match
WhereEqual(freqs, f) == {j \in 1..Len(freqs) : freqs[j] = f}

SetMin(S) == CHOOSE x \in S : \A y \in S : x <= y

_mains_frequency_amplitude(spectrum_amp, mains_frequency, power_frequency, sampling_rate) ==
    LET window == _get_window_from_spectrum(spectrum_amp)
        freqs == spectral_frequencies(window, DEFAULT_N, FALSE, power_frequency,
                                      sampling_rate)
    IN  IF freqs.kind # "ok" THEN freqs
        ELSE LET mf == ResolveMainsFrequency(spectrum_amp, freqs.val, mains_frequency)
                 hits == WhereEqual(freqs.val, mf)
             IN  IF hits = {}
                 THEN Raise("ValueError",
                            "Mains frequency of {value}Hz is not in spectral frequencies as generated by FFT...",
                            mf)
                 ELSE Ok(Gather(spectrum_amp, <<SetMin(hits) - 1>>))

-----------------------------------------------------------------------------
(* Harmonic features *)

\* np.arange(start, stop, step=step) for step > 0
RECURSIVE Arange(_, _, _)
Arange(start, stop, step) ==
    IF start >= stop THEN <<>> ELSE <<start>> \o Arange(start + step, stop, step)

\* np.mean of the selected 0-based columns of one row
MeanAt(row, idxs) == Frac(SumSeq([i \in 1..Len(idxs) |-> row[idxs[i] + 1]]), Len(idxs))

SumAt(row, idxs) == SumSeq([i \in 1..Len(idxs) |-> row[idxs[i] + 1]])

odd_even_ratio(harmonics_amp) ==
    LET odd == Arange(0, 20, 20)
        even == Arange(1, 20, 20)
    IN  Ok([r \in 1..Len(harmonics_amp) |->
               <<FracDiv(MeanAt(harmonics_amp[r], odd), MeanAt(harmonics_amp[r], even))>>])

tristiumulus(harmonics_amp) ==
    LET harmonics_sum(r) == SumSeq(harmonics_amp[r])
        t_1(r) == Frac(harmonics_amp[r][1], harmonics_sum(r))
        t_2(r) == Frac(SumAt(harmonics_amp[r], <<1, 2, 3>>), harmonics_sum(r))
        t_3(r) == Frac(SumAt(harmonics_amp[r], Arange(4, 9, 1)), harmonics_sum(r))
    IN  Ok([r \in 1..Len(harmonics_amp) |-> <<t_1(r), t_2(r), t_3(r)>>])

-----------------------------------------------------------------------------
(* High-pass filter *)

FilterGainInclusive(filter_type, f, filter_frequency) ==
    LET below == ~FracLess(Whole(filter_frequency), f)
        ratio == FracDiv(f, Whole(filter_frequency))
    IN  CASE filter_type = "zero" -> IF below THEN Whole(0) ELSE Whole(1)
          [] filter_type = "linear" -> IF below THEN ratio ELSE Whole(1)
          [] filter_type = "quadratic" -> IF below THEN FracMul(ratio, ratio) ELSE Whole(1)
          [] OTHER -> Whole(1)

\* one entry of the filter vector: np.where(freqs < filter_frequency, ..., 1)
FilterGain(filter_type, f, filter_frequency) ==
    LET below == FracLess(f, Whole(filter_frequency))
        ratio == FracDiv(f, Whole(filter_frequency))
    IN  CASE filter_type = "zero" -> IF below THEN Whole(0) ELSE Whole(1)
          [] filter_type = "linear" -> IF below THEN ratio ELSE Whole(1)
          [] filter_type = "quadratic" -> IF below THEN FracMul(ratio, ratio) ELSE Whole(1)
          [] OTHER -> Whole(1)

FilterTypes == {"zero", "linear", "quadratic", "none"}

high_pass_filter_lenient(spectrum_amp, filter_type, filter_frequency) ==
    LET window == _get_window_from_spectrum(spectrum_amp)
        freqs == spectral_frequencies(window, DEFAULT_N, FALSE, POWER_FREQUENCY,
                                      SAMPLING_RATE)
    IN  IF freqs.kind # "ok" THEN freqs
        ELSE Ok([r \in 1..Len(spectrum_amp) |->
                    [j \in 1..Len(spectrum_amp[r]) |->
                        FracMul(spectrum_amp[r][j],
                                FilterGain(filter_type, freqs.val[j], filter_frequency))]])

\* spectrum_amp holds rationals; the result holds rationals
high_pass_filter(spectrum_amp, filter_type, filter_frequency) ==
    LET window == _get_window_from_spectrum(spectrum_amp)
        freqs == spectral_frequencies(window, DEFAULT_N, FALSE, POWER_FREQUENCY,
                                      SAMPLING_RATE)
    IN  IF freqs.kind # "ok" THEN freqs
        ELSE IF filter_type \notin FilterTypes
        THEN Raise("ValueError", "High pass filter of type '{value}'not implemented...",
                   filter_type)
        ELSE Ok([r \in 1..Len(spectrum_amp) |->
                    [j \in 1..Len(spectrum_amp[r]) |->
                        FracMul(spectrum_amp[r][j],
                                FilterGain(filter_type, freqs.val[j], filter_frequency))]])

-----------------------------------------------------------------------------
(* Spectral features applied to the filtered spectrum *)

NaN == [special |-> "nan"]

Inf == [special |-> "inf"]

\* x / y as numpy divides floats: no exception on a zero divisor
NumpyDiv(x, y) ==
    IF y[1] = 0 THEN (IF x[1] = 0 THEN NaN ELSE Inf) ELSE FracDiv(x, y)

\* features.helpers.geo_mean: the row-wise geometric mean, kept symbolic
geo_mean(a) == [r \in 1..Len(a) |-> [geo_mean_of |-> a[r]]]

spectral_flatness(spectrum_amp) ==
    LET clamped == [r \in 1..Len(spectrum_amp) |->
                       [j \in 1..Len(spectrum_amp[r]) |->
                           IF spectrum_amp[r][j][1] = 0 THEN Frac(1, 100000)
                           ELSE spectrum_amp[r][j]]]
        mean(r) == FracDiv(SumFracs(clamped[r]), Whole(Len(clamped[r])))
    IN  Ok([r \in 1..Len(clamped) |-> <<[num |-> geo_mean(clamped)[r], den |-> mean(r)]>>])

\* spectrum_amp[:, 1:] / freqs under numpy broadcasting of (rows, m) with (k,)
spectral_centroid(spectrum_amp, current, power_frequency, sampling_rate) ==
    LET window == _get_default_window(current)
        freqs == Tail(spectral_frequencies(window, DEFAULT_N, FALSE, power_frequency,
                                           sampling_rate).val)
        bins(r) == Tail(spectrum_amp[r])
        m == Len(spectrum_amp[1]) - 1
        k == Len(freqs)
        quot(r) == IF m = k THEN [j \in 1..m |-> FracDiv(bins(r)[j], freqs[j])]
                   ELSE IF k = 1 THEN [j \in 1..m |-> FracDiv(bins(r)[j], freqs[1])]
                   ELSE [j \in 1..k |-> FracDiv(bins(r)[1], freqs[j])]
    IN  IF m # k /\ m # 1 /\ k # 1
        THEN Raise("ValueError", "operands could not be broadcast together", <<m, k>>)
        ELSE Ok([r \in 1..Len(spectrum_amp) |->
                    <<NumpyDiv(SumFracs(quot(r)), SumFracs(bins(r)))>>])

high_frequency_spectral_centroid(spectrum_amp, current, filter_type, filter_frequency, power_frequency, sampling_rate) ==
    LET filtered == high_pass_filter(spectrum_amp, filter_type, filter_frequency)
    IN  IF filtered.kind # "ok" THEN filtered
        ELSE spectral_centroid(filtered.val, current, power_frequency, sampling_rate)

high_frequency_spectral_flatness(spectrum_amp, filter_type, filter_frequency) ==
    LET filtered == high_pass_filter(spectrum_amp, filter_type, filter_frequency)
    IN  IF filtered.kind # "ok" THEN filtered
        ELSE spectral_flatness(filtered.val)

high_frequency_spectral_mean(spectrum_amp, filter_type, filter_frequency) ==
    LET filtered == high_pass_filter(spectrum_amp, filter_type, filter_frequency)
    IN  IF filtered.kind # "ok" THEN filtered
        ELSE Ok([r \in 1..Len(filtered.val) |->
                    <<FracDiv(SumFracs(filtered.val[r]), Whole(Len(filtered.val[r])))>>])

-----------------------------------------------------------------------------
(* Inputs *)

\* a current batch: the sample values do not matter to any shape
CurrentBatch(rows, cols) == [r \in 1..rows |-> [j \in 1..cols |-> j]]

Currents == {CurrentBatch(r, c) : r \in {1, MaxRows}, c \in 1..MaxCurrentCols}

WindowArgs == {[tag |-> "None"]} \cup {[tag |-> "int", v |-> w] : w \in 1..MaxCurrentCols}

PowerFrequencies == {50, 100, 1000}

SamplingRates == {400, 6400}

\* frequency vectors handed directly to _get_harmonics_indices
FreqValues == {-50, 0, 50, 75, 100}

FreqVectors ==
    UNION {[1..len -> {Whole(v) : v \in FreqValues}] : len \in 1..MaxFreqLen}

HarmonicPowerFrequencies == {-50, 0, 25, 50}

\* spectra handed to the feature formulas: window / 2 + 1 columns
SpectrumWindows == {2, 4}

Amplitudes == {1, 2}

SpectraOf(rows) ==
    UNION {[1..r -> [1..(w \div 2 + 1) -> {Whole(a) : a \in Amplitudes}]] :
              r \in 1..rows, w \in SpectrumWindows}

Spectra == SpectraOf(MaxRows)

FilterSpectra == SpectraOf(MaxFilterRows)

MainsArgs ==
    {[tag |-> "omitted"], [tag |-> "None"]}
        \cup {[tag |-> "hz", hz |-> h] : h \in {0, 13, 50, 100}}

MainsPowerFrequencies == {50, 100}

MainsSamplingRates == {200, 6400}

FilterTypeArgs == FilterTypes \cup {"cubic"}

FilterFrequencies == {DEFAULT_FILTER_FREQUENCY, 1600, 3200}

CentroidCurrents == {CurrentBatch(1, c) : c \in {2, 4, 8}}

\* rows of a batch whose spectrum is handed to spectral_centroid
CentroidRows == {1, 2}

\* the windows spectrum accepts for a batch: none, or one within its columns
WindowsWithin(current) ==
    {window \in WindowArgs : window.tag = "int" => window.v <= Len(current[1])}

\* amplitude matrices of the shape of a spectrum
AmplitudesLike(shape) ==
    [1..Len(shape) -> [1..Len(shape[1]) -> {Whole(a) : a \in Amplitudes}]]

\* harmonic amplitude matrices of DEFAULT_N columns holding whole amplitudes:
\* all ones but for two columns
HarmonicAmplitudes == {1, 2, 3}

HarmonicRow(p, a, q, b) ==
    [i \in 1..DEFAULT_N |-> IF i = p THEN a ELSE IF i = q THEN b ELSE 1]

HarmonicRows ==
    {HarmonicRow(p, a, q, b) : p \in 1..DEFAULT_N, q \in 1..DEFAULT_N,
                               a \in HarmonicAmplitudes, b \in HarmonicAmplitudes}

HarmonicMatrices ==
    {<<row>> : row \in HarmonicRows}
        \cup {<<row, HarmonicRow(1, 2, 10, 3)>> : row \in HarmonicRows}

-----------------------------------------------------------------------------
(* The caller *)

Idle == [none |-> TRUE]

Init ==
    /\ op = "idle"
    /\ arg = Idle
    /\ out = Idle

CallSpectrum ==
    /\ op = "idle"
    /\ \E current \in Currents, window \in WindowArgs :
        /\ op' = "spectrum"
        /\ arg' = [current |-> current, window |-> window]
        /\ out' = spectrum(current, window)

CallHarmonics ==
    /\ op = "idle"
    /\ \E current \in Currents, window \in WindowArgs, n \in 1..MaxHarmonics,
          pf \in PowerFrequencies, sr \in SamplingRates :
        /\ op' = "harmonics"
        /\ arg' = [current |-> current, window |-> window, n |-> n,
                   power_frequency |-> pf, sampling_rate |-> sr]
        /\ out' = harmonics(current, n, window, pf, sr)

CallGetHarmonicsIndices ==
    /\ op = "idle"
    /\ \E freqs \in FreqVectors, n \in 1..MaxHarmonics, pf \in HarmonicPowerFrequencies :
        /\ op' = "_get_harmonics_indices"
        /\ arg' = [spectral_frequencies |-> freqs, n |-> n, power_frequency |-> pf]
        /\ out' = Ok(_get_harmonics_indices(freqs, n, pf))

\* a caller recovers the window of a spectrum it has computed
CallGetWindowFromSpectrum ==
    /\ op = "idle"
    /\ \E current \in Currents, window \in WindowArgs :
        LET spectrum_amp == spectrum(current, window).val IN
        /\ op' = "_get_window_from_spectrum"
        /\ arg' = [current |-> current, window |-> window, spectrum_amp |-> spectrum_amp]
        /\ out' = Ok(_get_window_from_spectrum(spectrum_amp))

CallMainsFrequencyAmplitude ==
    /\ op = "idle"
    /\ \E spectrum_amp \in Spectra, mains \in MainsArgs,
          pf \in MainsPowerFrequencies, sr \in MainsSamplingRates :
        /\ op' = "_mains_frequency_amplitude"
        /\ arg' = [spectrum_amp |-> spectrum_amp, given |-> mains,
                   mains_frequency |-> BindMainsFrequency(mains),
                   power_frequency |-> pf, sampling_rate |-> sr]
        /\ out' = _mains_frequency_amplitude(spectrum_amp, BindMainsFrequency(mains),
                                             pf, sr)

CallOddEvenRatio ==
    /\ op = "idle"
    /\ \E harmonics_amp \in HarmonicMatrices :
        /\ op' = "odd_even_ratio"
        /\ arg' = [harmonics_amp |-> harmonics_amp]
        /\ out' = odd_even_ratio(harmonics_amp)

CallTristiumulus ==
    /\ op = "idle"
    /\ \E harmonics_amp \in HarmonicMatrices :
        /\ op' = "tristiumulus"
        /\ arg' = [harmonics_amp |-> harmonics_amp]
        /\ out' = tristiumulus(harmonics_amp)

CallHighPassFilter ==
    /\ op = "idle"
    /\ \E spectrum_amp \in FilterSpectra, ft \in FilterTypeArgs, ff \in FilterFrequencies :
        /\ op' = "high_pass_filter"
        /\ arg' = [spectrum_amp |-> spectrum_amp, filter_type |-> ft,
                   filter_frequency |-> ff]
        /\ out' = high_pass_filter(spectrum_amp, ft, ff)

CallHighFrequencySpectralCentroid ==
    /\ op = "idle"
    /\ \E spectrum_amp \in FilterSpectra, current \in CentroidCurrents,
          ft \in FilterTypeArgs, ff \in FilterFrequencies :
        /\ op' = "high_frequency_spectral_centroid"
        /\ arg' = [spectrum_amp |-> spectrum_amp, current |-> current,
                   filter_type |-> ft, filter_frequency |-> ff]
        /\ out' = high_frequency_spectral_centroid(spectrum_amp, current, ft, ff,
                                                   POWER_FREQUENCY, SAMPLING_RATE)

CallHighFrequencySpectralFlatness ==
    /\ op = "idle"
    /\ \E spectrum_amp \in FilterSpectra, ft \in FilterTypeArgs, ff \in FilterFrequencies :
        /\ op' = "high_frequency_spectral_flatness"
        /\ arg' = [spectrum_amp |-> spectrum_amp, filter_type |-> ft,
                   filter_frequency |-> ff]
        /\ out' = high_frequency_spectral_flatness(spectrum_amp, ft, ff)

CallHighFrequencySpectralMean ==
    /\ op = "idle"
    /\ \E spectrum_amp \in FilterSpectra, ft \in FilterTypeArgs, ff \in FilterFrequencies :
        /\ op' = "high_frequency_spectral_mean"
        /\ arg' = [spectrum_amp |-> spectrum_amp, filter_type |-> ft,
                   filter_frequency |-> ff]
        /\ out' = high_frequency_spectral_mean(spectrum_amp, ft, ff)

\* a caller computes the spectrum of a batch with a window of its choice and
\* hands spectrum and batch to spectral_centroid
CallSpectralCentroid ==
    /\ op = "idle"
    /\ \E rows \in CentroidRows, cols \in 1..MaxCurrentCols, sr \in SamplingRates :
        LET current == CurrentBatch(rows, cols) IN
        \E window \in WindowsWithin(current) :
            \E spectrum_amp \in AmplitudesLike(spectrum(current, window).val) :
                /\ op' = "spectral_centroid"
                /\ arg' = [current |-> current, window |-> window,
                           spectrum_amp |-> spectrum_amp,
                           power_frequency |-> POWER_FREQUENCY, sampling_rate |-> sr]
                /\ out' = spectral_centroid(spectrum_amp, current, POWER_FREQUENCY, sr)

\* the call returns (or its exception reaches the caller): nothing is kept
Return ==
    /\ op # "idle"
    /\ op' = "idle"
    /\ arg' = Idle
    /\ out' = Idle

Next ==
    \/ CallSpectrum
    \/ CallHarmonics
    \/ CallGetHarmonicsIndices
    \/ CallGetWindowFromSpectrum
    \/ CallMainsFrequencyAmplitude
    \/ CallOddEvenRatio
    \/ CallTristiumulus
    \/ CallHighPassFilter
    \/ CallHighFrequencySpectralCentroid
    \/ CallHighFrequencySpectralFlatness
    \/ CallHighFrequencySpectralMean
    \/ CallSpectralCentroid
    \/ Return

Spec == Init /\ [][Next]_vars

-----------------------------------------------------------------------------
(* Shapes and bins as the claims name them *)

NCols(a) == Len(a[1])

\* column k (0-based) of a matrix as a (rows, 1) matrix
Column(a, k) == [r \in 1..Len(a) |-> <<a[r][k + 1]>>]

IsPowerOfTwo(w) == \E e \in 0..w : 2 ^ e = w

\* the rational f is the frequency k / window * sampling_rate of bin k
IsBin(f, k, window, sampling_rate) == k * sampling_rate * f[2] = f[1] * window

-----------------------------------------------------------------------------
(* C1: for every harmonic-amplitude matrix of 20 columns and every row,     *)
(* odd_even_ratio returns mean(x1, x3, ..., x19) / mean(x2, x4, ..., x20),  *)
(* one value per row.  The code takes np.arange(0, 20, step=20), which is   *)
(* the single index 0 (and 1 for the even side): it returns x1 / x2.        *)

C1_OddEvenRatioIsRatioOfMeans ==
    op = "odd_even_ratio" =>
        /\ out.kind = "ok"
        /\ Len(out.val) = Len(arg.harmonics_amp)
        /\ \A r \in 1..Len(arg.harmonics_amp) :
            LET x == arg.harmonics_amp[r]
                odd_sum == SumSeq([i \in 1..10 |-> x[2 * i - 1]])
                even_sum == SumSeq([i \in 1..10 |-> x[2 * i]])
            IN  out.val[r] = <<FracDiv(Frac(odd_sum, 10), Frac(even_sum, 10))>>

-----------------------------------------------------------------------------
(* C2: for every harmonic-amplitude matrix of 20 columns and every row with *)
(* a non-zero harmonic sum S, tristiumulus returns T1 = x1 / S,             *)
(* T2 = (x2 + x3 + x4) / S and T3 = (x5 + ... + x10) / S.  The code sums    *)
(* the slice 4:9 for T3, which stops at x9.                                 *)

C2_TristimulusThirdIncludesTenth ==
    op = "tristiumulus" =>
        /\ out.kind = "ok"
        /\ \A r \in 1..Len(arg.harmonics_amp) :
            LET x == arg.harmonics_amp[r]
                S == SumSeq(x)
            IN  S # 0 =>
                    out.val[r] = <<Frac(x[1], S),
                                   Frac(x[2] + x[3] + x[4], S),
                                   Frac(x[5] + x[6] + x[7] + x[8] + x[9] + x[10], S)>>

-----------------------------------------------------------------------------
(* C3: called without a mains frequency, _mains_frequency_amplitude         *)
(* resolves the power_frequency of that same call, and returns the column   *)
(* of the bin whose frequency equals it.  The code binds the parameter      *)
(* default, the module constant POWER_FREQUENCY, whatever power_frequency   *)
(* the call carries.                                                        *)

C3_OmittedMainsResolvesPowerFrequency ==
    (op = "_mains_frequency_amplitude" /\ arg.given.tag = "omitted") =>
        LET w == 2 * (NCols(arg.spectrum_amp) - 1)
            f == Whole(arg.power_frequency)
        IN  /\ arg.mains_frequency = [tag |-> "hz", hz |-> arg.power_frequency]
            /\ \A k \in 0..(w \div 2) :
                IsBin(f, k, w, arg.sampling_rate) =>
                    out = Ok(Column(arg.spectrum_amp, k))

-----------------------------------------------------------------------------
(* C4: _mains_frequency_amplitude raises the ValueError that carries the    *)
(* offending frequency if and only if the resolved mains frequency equals   *)
(* no entry k / window * sampling_rate (k = 0..window/2) for                *)
(* window = 2 * (columns - 1); when it equals entry k the call returns      *)
(* column k of the spectrum for every row, and no nearby bin stands in.     *)

C4_InvalidFrequencyIffNotABin ==
    op = "_mains_frequency_amplitude" =>
        LET w == 2 * (NCols(arg.spectrum_amp) - 1)
            freqs == [j \in 1..(w \div 2 + 1) |-> Frac((j - 1) * arg.sampling_rate, w)]
            f == ResolveMainsFrequency(arg.spectrum_amp, freqs, arg.mains_frequency)
            member == \E k \in 0..(w \div 2) : IsBin(f, k, w, arg.sampling_rate)
        IN  /\ out.kind \in {"ok", "ValueError"}
            /\ out.kind = "ValueError" <=> ~member
            /\ out.kind = "ValueError" => out.value = f
            /\ \A k \in 0..(w \div 2) :
                IsBin(f, k, w, arg.sampling_rate) => out = Ok(Column(arg.spectrum_amp, k))

C4_Witness ==
    /\ op = "_mains_frequency_amplitude"
    /\ arg.mains_frequency = [tag |-> "hz", hz |-> 13]
    /\ out.kind = "ValueError"
    /\ out.value = Whole(13)

-----------------------------------------------------------------------------
(* C5: with mains frequency None the resolved frequency is the majority     *)
(* vote over the rows' peak bins (first bin on equal maxima within a row),  *)
(* the lowest frequency among equally common ones; it is a bin frequency,   *)
(* so the call returns that bin's column and never raises.                  *)

C5PeakBin(row) ==
    CHOOSE k \in 0..(Len(row) - 1) :
        /\ \A j \in 0..(Len(row) - 1) : ~FracLess(row[k + 1], row[j + 1])
        /\ \A j \in 0..(k - 1) : FracLess(row[j + 1], row[k + 1])

C5Votes(a, k) == Cardinality({r \in 1..Len(a) : C5PeakBin(a[r]) = k})

\* C5: auto mode returns the column of the lowest most-voted peak bin and
\* never raises
C5_AutoModeMajorityVote ==
    (op = "_mains_frequency_amplitude" /\ arg.given.tag = "None") =>
        LET a == arg.spectrum_amp
            w == 2 * (NCols(a) - 1)
            freqs == [j \in 1..(w \div 2 + 1) |-> Frac((j - 1) * arg.sampling_rate, w)]
            f == ResolveMainsFrequency(a, freqs, arg.mains_frequency)
            bins == 0..(w \div 2)
        IN  /\ out.kind = "ok"
            /\ \E k \in bins :
                /\ IsBin(f, k, w, arg.sampling_rate)
                /\ \A j \in bins : C5Votes(a, j) <= C5Votes(a, k)
                /\ \A j \in bins : j < k => C5Votes(a, j) < C5Votes(a, k)
                /\ out = Ok(Column(a, k))

\* three rows, two of which peak at a bin above the third row's peak
C5_Witness ==
    /\ op = "_mains_frequency_amplitude"
    /\ arg.given.tag = "None"
    /\ out.kind = "ok"
    /\ \E k \in 1..(NCols(arg.spectrum_amp) - 1) :
        /\ C5Votes(arg.spectrum_amp, k) = 2
        /\ \E j \in 0..(k - 1) : C5Votes(arg.spectrum_amp, j) = 1
        /\ out = Ok(Column(arg.spectrum_amp, k))
        /\ out # Ok(Column(arg.spectrum_amp, 0))

-----------------------------------------------------------------------------
(* C6: _get_harmonics_indices returns exactly n indices, the i-th the       *)
(* lowest index j that minimises |max(frequency[j], 0) - i*power_frequency|;*)
(* when i*power_frequency is exactly the frequency of a bin of a strictly   *)
(* increasing frequency vector without negative entries, the i-th index is  *)
(* that bin.                                                                *)

C6Value(j) == arg.spectral_frequencies[j][1]

C6Distance(i, j) ==
    Abs((IF C6Value(j) < 0 THEN 0 ELSE C6Value(j)) - i * arg.power_frequency)

C6NearestFirst ==
    /\ out.kind = "ok"
    /\ Len(out.val) = arg.n
    /\ \A i \in 1..arg.n :
        LET j == out.val[i] + 1
            len == Len(arg.spectral_frequencies)
        IN  /\ j \in 1..len
            /\ \A k \in 1..len : C6Distance(i, j) <= C6Distance(i, k)
            /\ \A k \in 1..(j - 1) : C6Distance(i, j) < C6Distance(i, k)

C6StrictlyIncreasing ==
    \A j \in 1..Len(arg.spectral_frequencies), k \in 1..Len(arg.spectral_frequencies) :
        j < k => C6Value(j) < C6Value(k)

C6ExactBinSelected ==
    \A i \in 1..arg.n, j \in 1..Len(arg.spectral_frequencies) :
        C6Value(j) = i * arg.power_frequency => out.val[i] = j - 1

\* C6 as amended: n indices, each the first nearest bin; the exact bin on a
\* strictly increasing vector without negative entries
C6_HarmonicIndicesNearestBin ==
    op = "_get_harmonics_indices" =>
        /\ C6NearestFirst
        /\ (/\ C6StrictlyIncreasing
            /\ \A j \in 1..Len(arg.spectral_frequencies) : C6Value(j) >= 0)
                => C6ExactBinSelected

\* C6 as written: the exact bin on every strictly increasing vector
C6_ExactBinOnEveryIncreasingVector ==
    op = "_get_harmonics_indices" =>
        /\ C6NearestFirst
        /\ C6StrictlyIncreasing => C6ExactBinSelected

\* a strictly increasing vector without negative entries, a tie between two
\* bins for one harmonic and an exact bin above bin 0 for another
C6_Witness ==
    /\ op = "_get_harmonics_indices"
    /\ C6StrictlyIncreasing
    /\ \A j \in 1..Len(arg.spectral_frequencies) : C6Value(j) >= 0
    /\ \E i \in 1..arg.n :
        /\ out.val[i] >= 1
        /\ C6Value(out.val[i] + 1) = i * arg.power_frequency
    /\ \E i \in 1..arg.n, k \in 1..Len(arg.spectral_frequencies) :
        /\ k > out.val[i] + 1
        /\ C6Distance(i, k) = C6Distance(i, out.val[i] + 1)

-----------------------------------------------------------------------------
(* C7: for every spectrum, cutoff > 0 and supported filter type,            *)
(* high_pass_filter returns a spectrum of the same shape, each bin the      *)
(* input bin times a gain that depends on the bin's frequency               *)
(* f = k / window * 6400, window = 2 * (columns - 1): 1 for f >= cutoff;    *)
(* below the cutoff 0 under 'zero', f / cutoff under 'linear',              *)
(* (f / cutoff)^2 under 'quadratic'; 1 everywhere under 'none'.             *)

C7Expected(amp, k, window, filter_type, cutoff) ==
    LET below == k * 6400 < cutoff * window
    IN  IF filter_type = "none" \/ ~below THEN amp
        ELSE IF filter_type = "zero" THEN <<0, 1>>
        ELSE IF filter_type = "linear"
             THEN Frac(amp[1] * k * 6400, amp[2] * cutoff * window)
        ELSE Frac(amp[1] * (k * 6400) * (k * 6400),
                  amp[2] * (cutoff * window) * (cutoff * window))

-----------------------------------------------------------------------------
(* C8: with a filter type other than 'zero', 'linear', 'quadratic' or       *)
(* 'none', high_pass_filter raises a ValueError that names the filter type  *)
(* and returns nothing; high_frequency_spectral_centroid, _flatness and     *)
(* _mean raise that same error.                                             *)

C8Operations ==
    {"high_pass_filter", "high_frequency_spectral_centroid",
     "high_frequency_spectral_flatness", "high_frequency_spectral_mean"}

\* C8: an unsupported filter type raises the ValueError naming it, in the
\* filter and in the three features built on it
C8_UnsupportedFilterType ==
    (op \in C8Operations
        /\ arg.filter_type \notin {"zero", "linear", "quadratic", "none"}) =>
        /\ out.kind = "ValueError"
        /\ out.value = arg.filter_type
        /\ out = [kind |-> "ValueError",
                  text |-> "High pass filter of type '{value}'not implemented...",
                  value |-> arg.filter_type]

C8_Witness ==
    /\ op = "high_frequency_spectral_centroid"
    /\ arg.filter_type = "cubic"
    /\ out.kind = "ValueError"
    /\ out.value = "cubic"

-----------------------------------------------------------------------------
(* C9: a window larger than the number of columns of the current batch      *)
(* (spectrum, harmonics) and a harmonic target beyond the last bin          *)
(* (harmonics, _get_harmonics_indices) end in a failure, never in a result  *)
(* computed from a shortened window or from a substituted bin.  The code    *)
(* slices current[:, :window], which stops at the last column, and takes    *)
(* the nearest bin for every target.                                        *)

C9WindowTooLarge ==
    /\ arg.window.tag = "int"
    /\ arg.window.v > NCols(arg.current)

\* C9: an oversized window or an out-of-range harmonic target never yields a
\* result
C9_NoSilentClamping ==
    /\ (op = "spectrum" /\ C9WindowTooLarge) => out.kind # "ok"
    /\ (op = "harmonics" /\ C9WindowTooLarge) => out.kind # "ok"
    /\ (op = "harmonics" /\ arg.n * arg.power_frequency * 2 > arg.sampling_rate)
            => out.kind # "ok"
    /\ (op = "_get_harmonics_indices"
            /\ \A j \in 1..Len(arg.spectral_frequencies) :
                    C6Value(j) < arg.n * arg.power_frequency)
            => out.kind # "ok"

-----------------------------------------------------------------------------
(* C10: for every current batch of c columns and every window w >= 2 used   *)
(* by spectrum (a given power of two w <= c, or the default, the largest    *)
(* power of two <= c), the spectrum has w/2 + 1 columns and                 *)
(* _get_window_from_spectrum recovers w from its shape.                     *)

\* the window the claim says the call uses
C10Window ==
    IF arg.window.tag = "int" THEN arg.window.v
    ELSE CHOOSE w \in 1..NCols(arg.current) :
            IsPowerOfTwo(w) /\ w <= NCols(arg.current) /\ NCols(arg.current) < 2 * w

C10Covered ==
    /\ op = "_get_window_from_spectrum"
    /\ arg.window.tag = "int" =>
        (IsPowerOfTwo(arg.window.v) /\ arg.window.v <= NCols(arg.current))

C10RoundTrip ==
    /\ NCols(arg.spectrum_amp) = C10Window \div 2 + 1
    /\ out = Ok(C10Window)

\* C10 as amended: for w >= 2 the spectrum has w/2 + 1 columns and the window
\* recovered from its shape is w
C10_WindowRoundTrip == (C10Covered /\ C10Window >= 2) => C10RoundTrip

\* C10 as written: the smallest power of two, w = 1, included
C10_WindowRoundTripFromOne == C10Covered => C10RoundTrip

\* the default window of a batch whose column count is no power of two
C10_Witness ==
    /\ op = "_get_window_from_spectrum"
    /\ arg.window.tag = "None"
    /\ NCols(arg.current) = 7
    /\ NCols(arg.spectrum_amp) = 3
    /\ out = Ok(4)

-----------------------------------------------------------------------------
(* C11: with S = spectrum(current, w) for a window w within the columns of  *)
(* the batch, spectral_centroid(S, current), and                            *)
(* high_frequency_spectral_centroid on the filtered S, divide each non-DC   *)
(* bin k of S by that bin's own frequency k / w * sampling_rate, the        *)
(* frequency map of the window 2 * (columns - 1) of S, also when w is not   *)
(* the default window of the batch.  The code takes the frequencies of      *)
(* _get_default_window(current), whatever the window of S is.               *)

\* the centroid with every non-DC bin over its own frequency
C11OwnFrequencyCentroid(a, w, sampling_rate) ==
    [r \in 1..Len(a) |->
        <<NumpyDiv(SumFracs([k \in 1..(NCols(a) - 1) |->
                                FracDiv(a[r][k + 1], Frac(k * sampling_rate, w))]),
                   SumFracs(Tail(a[r])))>>]

\* C11: the centroid pairs the bins of S with the frequencies of S's window
C11_CentroidUsesWindowOfSpectrum ==
    /\ op = "spectral_centroid" =>
        out = Ok(C11OwnFrequencyCentroid(arg.spectrum_amp,
                                         ResolveWindow(arg.current, arg.window),
                                         arg.sampling_rate))
    /\ (op = "high_frequency_spectral_centroid"
            /\ arg.filter_type \in {"zero", "linear", "quadratic", "none"}
            /\ 2 * (NCols(arg.spectrum_amp) - 1) <= NCols(arg.current)) =>
        out = Ok(C11OwnFrequencyCentroid(
                    high_pass_filter(arg.spectrum_amp, arg.filter_type,
                                     arg.filter_frequency).val,
                    2 * (NCols(arg.spectrum_amp) - 1), SAMPLING_RATE))

====
